---- MODULE Spec2Model ----
(***************************************************************************)
(* A model of the HR retrieval-augmented question-answering pipeline:      *)
(* the chunker and process_pdf of utils/pdf_processor.py, the batch        *)
(* ingestion run of main.py, the answer composer of utils/generator.py and *)
(* the two front ends flask_chatbot.py and rag_chatbot.py.                 *)
(*                                                                         *)
(* Python strings are sequences of one-character strings.                  *)
(***************************************************************************)
EXTENDS Integers, Sequences, FiniteSets, TLC

\* ------------------------------------------------------------------------
\* Bounds of the model
\* ------------------------------------------------------------------------
MaxTextLen == 4
MaxSize == 3
MaxChunks == 6
MaxBack == 2
MaxRuns == 2

\* ------------------------------------------------------------------------
\* Python string primitives
\* ------------------------------------------------------------------------
WS == {" ", "\n", "\t"}

MinOf(S) == CHOOSE x \in S : \A y \in S : x <= y

MaxOf(S) == CHOOSE x \in S : \A y \in S : x >= y

\* s[a:b] with Python's treatment of negative and out-of-range indices
PySlice(s, a, b) ==
    LET L == Len(s)
        lo == IF a < 0 THEN (IF a + L < 0 THEN 0 ELSE a + L)
                       ELSE (IF a > L THEN L ELSE a)
        hi == IF b < 0 THEN (IF b + L < 0 THEN 0 ELSE b + L)
                       ELSE (IF b > L THEN L ELSE b)
    IN  IF lo >= hi THEN << >> ELSE SubSeq(s, lo + 1, hi)

\* str.strip(): leading and trailing whitespace removed
Strip(s) ==
    LET nw == {i \in 1..Len(s) : s[i] \notin WS}
    IN  IF nw = {} THEN << >> ELSE SubSeq(s, MinOf(nw), MaxOf(nw))

\* str.lower() on the letters the model uses
UpperLetters == <<"A", "B", "C", "D", "E", "F", "G", "H", "I", "J", "K", "L", "M",
                  "N", "O", "P", "Q", "R", "S", "T", "U", "V", "W", "X", "Y", "Z">>

LowerLetters == <<"a", "b", "c", "d", "e", "f", "g", "h", "i", "j", "k", "l", "m",
                  "n", "o", "p", "q", "r", "s", "t", "u", "v", "w", "x", "y", "z">>

LowerChar(c) ==
    IF \E k \in 1..26 : UpperLetters[k] = c
    THEN LowerLetters[CHOOSE k \in 1..26 : UpperLetters[k] = c]
    ELSE c

Lower(s) == [i \in 1..Len(s) |-> LowerChar(s[i])]

\* needle in hay
Contains(hay, needle) ==
    \E i \in 0..(Len(hay) - Len(needle)) : SubSeq(hay, i + 1, i + Len(needle)) = needle

\* the pieces of s between separators, scanning from position i with the
\* piece cur under way; empty pieces are kept or dropped
RECURSIVE SplitFrom(_, _, _, _, _)
SplitFrom(s, i, cur, seps, keepEmpty) ==
    LET done == IF keepEmpty \/ cur # << >> THEN <<cur>> ELSE << >>
    IN  IF i > Len(s) THEN done
        ELSE IF s[i] \in seps THEN done \o SplitFrom(s, i + 1, << >>, seps, keepEmpty)
        ELSE SplitFrom(s, i + 1, Append(cur, s[i]), seps, keepEmpty)

\* str.split(): the whitespace-separated words
PyWords(s) == SplitFrom(s, 1, << >>, WS, FALSE)

\* str.split(sep) for a one-character separator
SplitOn(s, sep) == SplitFrom(s, 1, << >>, {sep}, TRUE)

\* sep.join(list)
RECURSIVE Join(_, _)
Join(list, sep) ==
    IF list = << >> THEN << >>
    ELSE IF Len(list) = 1 THEN list[1]
    ELSE list[1] \o sep \o Join(Tail(list), sep)

Range(f) == {f[i] : i \in DOMAIN f}

\* ------------------------------------------------------------------------
\* State
\* ------------------------------------------------------------------------
VARIABLES
    \* split_text_into_chunks: parameters, locals and position
    text, chunk_size, overlap, start, chunks, cpc,
    \* process_pdf: parameter, locals and position; embedLog records, per
    \* embedding call made, the page, the chunk and whether the call succeeded
    pdf_path, pages_data, page_i, chunk_i, documents, chunk_counter, ppc, embedLog,
    \* main: configuration, locals and position; the collection of the
    \* document store; run counts the runs that passed validation, and
    \* inserted / deletes record what the current run inserted and how many
    \* delete-all calls it issued; outcomes records, per file the loop of the
    \* current run is through with, its name, how it ended and the count added
    \* to the total
    config, deleted_count, pdf_files, file_i, total_documents, mpc, exit_code,
    collection, run, inserted, deletes, outcomes,
    \* answer_question: the front end serving the request, its locals and
    \* position; request is what came in, chat records the chat-completion
    \* call of the request, retrieved the calls of the retriever and how
    \* each ended, response what the caller gets
    front, request, query, results, context, answer, apc, chat, retrieved, response

chunkVars == <<text, chunk_size, overlap, start, chunks, cpc>>

pdfVars == <<pdf_path, pages_data, page_i, chunk_i, documents, chunk_counter, ppc, embedLog>>

mainVars == <<config, deleted_count, pdf_files, file_i, total_documents, mpc, exit_code,
             collection, run, inserted, deletes, outcomes>>

answerVars == <<front, request, query, results, context, answer, apc, chat, retrieved, response>>

vars == <<chunkVars, pdfVars, mainVars, answerVars>>

\* ------------------------------------------------------------------------
\* The layers that are not running
\* ------------------------------------------------------------------------
ChunkIdle ==
    /\ text = << >>
    /\ chunk_size = 0
    /\ overlap = 0
    /\ start = 0
    /\ chunks = << >>
    /\ cpc = "idle"

PdfIdle ==
    /\ pdf_path = << >>
    /\ pages_data = << >>
    /\ page_i = 0
    /\ chunk_i = 0
    /\ documents = << >>
    /\ chunk_counter = 0
    /\ ppc = "idle"
    /\ embedLog = << >>

MainIdle ==
    /\ config = [CHUNK_SIZE |-> 0, CHUNK_OVERLAP |-> 0]
    /\ deleted_count = 0
    /\ pdf_files = << >>
    /\ file_i = 0
    /\ total_documents = 0
    /\ mpc = "idle"
    /\ exit_code = 0
    /\ collection = << >>
    /\ run = 0
    /\ inserted = << >>
    /\ deletes = 0
    /\ outcomes = << >>

NoChat == [called |-> FALSE, raised |-> FALSE, out |-> << >>]

NoResponse == [kind |-> "none"]

AnswerIdle ==
    /\ front = "none"
    /\ request = [kind |-> "none"]
    /\ query = << >>
    /\ results = << >>
    /\ context = << >>
    /\ answer = << >>
    /\ apc = "idle"
    /\ chat = NoChat
    /\ retrieved = << >>
    /\ response = NoResponse

\* ------------------------------------------------------------------------
\* PDFProcessor.split_text_into_chunks
\* ------------------------------------------------------------------------
\* chunk = text[start:end] with end = start + chunk_size
Window(t, s, size) == PySlice(t, s, s + size)

\* if chunk.strip():
KeepChunk_keepBlank(chunk) == chunk # << >>

KeepChunk(chunk) == Strip(chunk) # << >>

\* start += chunk_size - overlap
NextStart_noOverlap(s, size, ov) == s + size

NextStart(s, size, ov) == s + (size - ov)

\* what one run of the loop body may grow without bound when the loop does
\* not end: the list of chunks and the distance of start below 0
WithinCaps == Len(chunks) < MaxChunks /\ start >= -MaxBack

SplitLoop ==
    /\ cpc = "loop"
    /\ start < Len(text)
    /\ WithinCaps
    /\ LET chunk == Window(text, start, chunk_size)
       IN  chunks' = IF KeepChunk(chunk) THEN Append(chunks, chunk) ELSE chunks
    /\ start' = NextStart(start, chunk_size, overlap)
    /\ UNCHANGED <<text, chunk_size, overlap, cpc, pdfVars, mainVars>>
    /\ UNCHANGED answerVars

SplitReturn ==
    /\ cpc = "loop"
    /\ ~(start < Len(text))
    /\ cpc' = "ret"
    /\ UNCHANGED <<text, chunk_size, overlap, start, chunks, pdfVars, mainVars>>
    /\ UNCHANGED answerVars

\* every text over a letter and a blank, up to MaxTextLen characters
Texts == UNION {[1..n -> {"a", " "}] : n \in 0..MaxTextLen}

ChunkInit ==
    /\ text \in Texts
    /\ chunk_size \in -1..MaxSize
    /\ overlap \in -2..(MaxSize + 1)
    /\ start = 0
    /\ chunks = << >>
    /\ cpc = "loop"
    /\ PdfIdle
    /\ MainIdle
    /\ AnswerIdle

ChunkNext == SplitLoop \/ SplitReturn

SpecChunk == ChunkInit /\ [][ChunkNext]_vars

\* ------------------------------------------------------------------------
\* PDFProcessor.extract_text_from_pdf and PDFProcessor.process_pdf
\* ------------------------------------------------------------------------
\* n copies of a character
Rep(c, n) == [i \in 1..n |-> c]

DATA_DIR == "data"

DefaultChunkSize == 1000

DefaultOverlap == 200

ExamplePageLen == 2500

\* what PdfReader yields for the files of the data directory: the text of
\* each page, blank pages included.  any.pdf stands for a one-page file of
\* arbitrary text, big.pdf for the 2500-character page of the specification
ReaderPages(path) ==
    LET name == path[Len(path)]
    IN  CASE name = "a.pdf" -> {<< <<"a", "b", "a">>, <<" ", "\n">>, <<"a", " ", " ", "b">> >>}
          [] name = "b.pdf" -> {<< <<"b", "a">> >>}
          [] name = "big.pdf" -> {<< Rep("a", ExamplePageLen) >>}
          [] OTHER -> {<<t>> : t \in Texts}

\* for page_num, page in enumerate(reader.pages, start=1): pages whose text
\* is blank are left out, the others keep their page number
RECURSIVE PagesFrom(_, _)
PagesFrom(raw, n) ==
    IF n > Len(raw) THEN << >>
    ELSE (IF Strip(raw[n]) # << >> THEN << [page |-> n, text |-> raw[n]] >> ELSE << >>)
         \o PagesFrom(raw, n + 1)

ExtractPages(raw) == PagesFrom(raw, 1)

\* pdf_path.split("/")[-1]
Basename(path) == path[Len(path)]

\* the value of "chunk_index" in a new document
ChunkIndex_perPage(counter, idx) == idx - 1

ChunkIndex(counter, idx) == counter

\* pages_data = self.extract_text_from_pdf(pdf_path); documents = [];
\* chunk_counter = 0
PdfExtract ==
    /\ ppc = "extract"
    /\ \E raw \in ReaderPages(pdf_path) :
          pages_data' = ExtractPages(raw)
    /\ documents' = << >>
    /\ chunk_counter' = 0
    /\ page_i' = 1
    /\ ppc' = "page"
    /\ UNCHANGED <<pdf_path, chunk_i, embedLog, chunkVars, mainVars>>
    /\ UNCHANGED answerVars

\* PdfReader(pdf_path) or page.extract_text() raises: process_pdf raises
PdfExtractRaises ==
    /\ ppc = "extract"
    /\ ppc' = "raised"
    /\ UNCHANGED <<pdf_path, pages_data, page_i, chunk_i, documents, chunk_counter,
                   embedLog, chunkVars, mainVars>>
    /\ UNCHANGED answerVars

\* for page_data in pages_data: chunks = self.split_text_into_chunks(...)
PdfPage ==
    /\ ppc = "page"
    /\ page_i <= Len(pages_data)
    /\ text' = pages_data[page_i].text
    /\ start' = 0
    /\ chunks' = << >>
    /\ cpc' = "loop"
    /\ ppc' = "split"
    /\ UNCHANGED <<chunk_size, overlap, pdf_path, pages_data, page_i, chunk_i,
                   documents, chunk_counter, embedLog, mainVars>>
    /\ UNCHANGED answerVars

\* split_text_into_chunks has returned: for chunk_idx, chunk in enumerate(chunks)
PdfChunks ==
    /\ ppc = "split"
    /\ cpc = "ret"
    /\ cpc' = "idle"
    /\ chunk_i' = 1
    /\ ppc' = "embed"
    /\ UNCHANGED <<text, chunk_size, overlap, start, chunks, pdf_path, pages_data,
                   page_i, documents, chunk_counter, embedLog, mainVars>>
    /\ UNCHANGED answerVars

\* generate_embedding(chunk) returns: the document is appended
PdfEmbedOk ==
    /\ ppc = "embed"
    /\ chunk_i <= Len(chunks)
    /\ documents' = Append(documents,
                           [content |-> chunks[chunk_i],
                            embedding |-> "vec",
                            source |-> Basename(pdf_path),
                            page |-> pages_data[page_i].page,
                            chunk_index |-> ChunkIndex(chunk_counter, chunk_i)])
    /\ chunk_counter' = chunk_counter + 1
    /\ chunk_i' = chunk_i + 1
    /\ embedLog' = Append(embedLog, [page |-> pages_data[page_i].page,
                                     content |-> chunks[chunk_i], ok |-> TRUE])
    /\ UNCHANGED <<pdf_path, pages_data, page_i, ppc, chunkVars, mainVars>>
    /\ UNCHANGED answerVars

\* where process_pdf goes on after generate_embedding(chunk) raised
AfterEmbedError_abort(i) == Len(chunks) + 1

AfterEmbedError(i) == i + 1

\* generate_embedding(chunk) raises: except Exception, then continue
PdfEmbedFail ==
    /\ ppc = "embed"
    /\ chunk_i <= Len(chunks)
    /\ chunk_i' = AfterEmbedError(chunk_i)
    /\ embedLog' = Append(embedLog, [page |-> pages_data[page_i].page,
                                     content |-> chunks[chunk_i], ok |-> FALSE])
    /\ UNCHANGED <<pdf_path, pages_data, page_i, documents, chunk_counter, ppc,
                   chunkVars, mainVars>>
    /\ UNCHANGED answerVars

\* the chunks of the page are exhausted: next page
PdfPageDone ==
    /\ ppc = "embed"
    /\ chunk_i > Len(chunks)
    /\ page_i' = page_i + 1
    /\ ppc' = "page"
    /\ UNCHANGED <<pdf_path, pages_data, chunk_i, documents, chunk_counter, embedLog,
                   chunkVars, mainVars>>
    /\ UNCHANGED answerVars

\* return documents
PdfReturn ==
    /\ ppc = "page"
    /\ page_i > Len(pages_data)
    /\ ppc' = "ret"
    /\ UNCHANGED <<pdf_path, pages_data, page_i, chunk_i, documents, chunk_counter,
                   embedLog, chunkVars, mainVars>>
    /\ UNCHANGED answerVars

PdfStep ==
    \/ PdfExtract
    \/ PdfExtractRaises
    \/ PdfPage
    \/ PdfChunks
    \/ PdfEmbedOk
    \/ PdfEmbedFail
    \/ PdfPageDone
    \/ PdfReturn

\* one call process_pdf(pdf_path, chunk_size, overlap); the 2500-character
\* page is chunked with the default size and overlap only
PdfCalls ==
    ({<<DATA_DIR, "a.pdf">>, <<DATA_DIR, "any.pdf">>}
        \X {<<2, 1>>, <<3, 1>>, <<2, 0>>, <<2, 2>>, <<DefaultChunkSize, DefaultOverlap>>})
    \cup {<< <<DATA_DIR, "big.pdf">>, <<DefaultChunkSize, DefaultOverlap>> >>}

PdfInit ==
    /\ \E c \in PdfCalls :
          /\ pdf_path = c[1]
          /\ chunk_size = c[2][1]
          /\ overlap = c[2][2]
    /\ text = << >>
    /\ start = 0
    /\ chunks = << >>
    /\ cpc = "idle"
    /\ pages_data = << >>
    /\ page_i = 0
    /\ chunk_i = 0
    /\ documents = << >>
    /\ chunk_counter = 0
    /\ ppc = "extract"
    /\ embedLog = << >>
    /\ MainIdle
    /\ AnswerIdle

PdfNext == SplitLoop \/ SplitReturn \/ PdfStep

SpecPdf == PdfInit /\ [][PdfNext]_vars

\* ------------------------------------------------------------------------
\* utils/setting.py and main.py: the batch ingestion run
\* ------------------------------------------------------------------------
RequiredVars ==
    {"COSMOS_CONNECTION_STRING", "AZURE_OPENAI_EMBEDDING_ENDPOINT",
     "AZURE_OPENAI_EMBEDDING_KEY", "AZURE_OPENAI_CHAT_ENDPOINT",
     "AZURE_OPENAI_CHAT_API_KEY"}

\* validate_config(): raises when a required variable has no value; the
\* chunk size and the overlap are not looked at
ValidateConfig(present, size, ov) == {k \in RequiredVars : k \notin present} = {}

\* the environments a run may start in
Environments == {RequiredVars, RequiredVars \ {"COSMOS_CONNECTION_STRING"}}

\* CHUNK_SIZE and CHUNK_OVERLAP as read from the environment
ChunkSettings == {<<2, 1>>, <<3, 0>>, <<0, -1>>, <<2, 2>>, <<1, 2>>, <<0, 0>>}

\* what a run may find at DATA_DIR: no directory, no PDF file, or files
DataDirs ==
    { [exists |-> FALSE, files |-> << >>],
      [exists |-> TRUE, files |-> << >>],
      [exists |-> TRUE, files |-> <<"a.pdf", "b.pdf">>],
      [exists |-> TRUE, files |-> <<"any.pdf">>] }

\* CosmosVectorDB.delete_all_documents
DeleteAllDocuments(coll) == << >>

\* CosmosVectorDB.insert_documents
InsertDocuments(coll, docs) == coll \o docs

\* a new process: nothing of the previous run's locals is left
FreshLocals ==
    /\ text' = << >>
    /\ chunk_size' = 0
    /\ overlap' = 0
    /\ start' = 0
    /\ chunks' = << >>
    /\ cpc' = "idle"
    /\ pdf_path' = << >>
    /\ pages_data' = << >>
    /\ page_i' = 0
    /\ chunk_i' = 0
    /\ documents' = << >>
    /\ chunk_counter' = 0
    /\ ppc' = "idle"
    /\ embedLog' = << >>
    /\ deleted_count' = 0
    /\ pdf_files' = << >>
    /\ file_i' = 0
    /\ total_documents' = 0

\* validate_config() raises ValueError: print, sys.exit(1)
MainConfigError ==
    /\ mpc = "idle"
    /\ run < MaxRuns
    /\ \E present \in Environments, c \in ChunkSettings :
          ~ValidateConfig(present, c[1], c[2])
    /\ exit_code' = 1
    /\ UNCHANGED <<config, deleted_count, pdf_files, file_i, total_documents, mpc, collection, run,
                   inserted, deletes, outcomes, chunkVars, pdfVars>>
    /\ UNCHANGED answerVars

\* validate_config() passes; PDFProcessor and CosmosVectorDB are constructed
MainStart ==
    /\ mpc = "idle"
    /\ run < MaxRuns
    /\ \E present \in Environments, c \in ChunkSettings :
          /\ ValidateConfig(present, c[1], c[2])
          /\ config' = [CHUNK_SIZE |-> c[1], CHUNK_OVERLAP |-> c[2]]
    /\ FreshLocals
    /\ run' = run + 1
    /\ inserted' = << >>
    /\ deletes' = 0
    /\ outcomes' = << >>
    /\ exit_code' = 0
    /\ mpc' = "delete"
    /\ UNCHANGED collection
    /\ UNCHANGED answerVars

MainDelete_skipped ==
    /\ mpc = "delete"
    /\ mpc' = "scan"
    /\ deletes' = deletes + 1
    /\ deleted_count' = 0
    /\ UNCHANGED <<config, pdf_files, file_i, total_documents, exit_code, collection, run,
                   inserted, outcomes, chunkVars, pdfVars>>
    /\ UNCHANGED answerVars

\* deleted_count = cosmos_db.delete_all_documents()
MainDelete ==
    /\ mpc = "delete"
    /\ collection' = DeleteAllDocuments(collection)
    /\ deleted_count' = Len(collection)
    /\ deletes' = deletes + 1
    /\ mpc' = "scan"
    /\ UNCHANGED <<config, pdf_files, file_i, total_documents, exit_code, run,
                   inserted, outcomes, chunkVars, pdfVars>>
    /\ UNCHANGED answerVars

\* the data directory is missing or holds no *.pdf: return; otherwise
\* pdf_files = list(data_dir.glob("*.pdf")), total_documents = 0
MainScan ==
    /\ mpc = "scan"
    /\ \E d \in DataDirs :
          IF ~d.exists \/ d.files = << >>
          THEN /\ mpc' = "idle"
               /\ UNCHANGED <<pdf_files, file_i, total_documents>>
          ELSE /\ pdf_files' = [i \in 1..Len(d.files) |-> <<DATA_DIR, d.files[i]>>]
               /\ file_i' = 1
               /\ total_documents' = 0
               /\ mpc' = "file"
    /\ UNCHANGED <<config, deleted_count, exit_code, collection, run, inserted, deletes,
                   outcomes, chunkVars, pdfVars>>
    /\ UNCHANGED answerVars

\* for pdf_file in pdf_files: documents = pdf_processor.process_pdf(
\*     pdf_path=str(pdf_file), chunk_size=config.CHUNK_SIZE,
\*     overlap=config.CHUNK_OVERLAP)
MainProcess ==
    /\ mpc = "file"
    /\ file_i <= Len(pdf_files)
    /\ pdf_path' = pdf_files[file_i]
    /\ chunk_size' = config.CHUNK_SIZE
    /\ overlap' = config.CHUNK_OVERLAP
    /\ text' = << >>
    /\ start' = 0
    /\ chunks' = << >>
    /\ cpc' = "idle"
    /\ pages_data' = << >>
    /\ page_i' = 0
    /\ chunk_i' = 0
    /\ documents' = << >>
    /\ chunk_counter' = 0
    /\ embedLog' = << >>
    /\ ppc' = "extract"
    /\ mpc' = "call"
    /\ UNCHANGED <<config, deleted_count, pdf_files, file_i, total_documents, exit_code, collection,
                   run, inserted, deletes, outcomes>>
    /\ UNCHANGED answerVars

\* what the loop of main leaves behind for one file
Outcome(path, how, count) == [file |-> Basename(path), how |-> how, count |-> count]

\* if documents: inserted = cosmos_db.insert_documents(documents);
\* total_documents += inserted
MainInsert ==
    /\ mpc = "call"
    /\ ppc = "ret"
    /\ documents # << >>
    /\ collection' = InsertDocuments(collection, documents)
    /\ inserted' = inserted \o documents
    /\ total_documents' = total_documents + Len(documents)
    /\ outcomes' = Append(outcomes, Outcome(pdf_path, "inserted", Len(documents)))
    /\ file_i' = file_i + 1
    /\ ppc' = "idle"
    /\ mpc' = "file"
    /\ UNCHANGED <<config, deleted_count, pdf_files, exit_code, run, deletes, chunkVars,
                   pdf_path, pages_data, page_i, chunk_i, documents, chunk_counter,
                   embedLog>>
    /\ UNCHANGED answerVars

\* insert_documents raises: except Exception, print, continue
MainInsertRaises ==
    /\ mpc = "call"
    /\ ppc = "ret"
    /\ documents # << >>
    /\ outcomes' = Append(outcomes, Outcome(pdf_path, "insert_raised", 0))
    /\ file_i' = file_i + 1
    /\ ppc' = "idle"
    /\ mpc' = "file"
    /\ UNCHANGED <<config, deleted_count, pdf_files, total_documents, exit_code, collection, run,
                   inserted, deletes, chunkVars,
                   pdf_path, pages_data, page_i, chunk_i, documents, chunk_counter,
                   embedLog>>
    /\ UNCHANGED answerVars

\* else: print("No documents created from ...")
MainNoDocuments ==
    /\ mpc = "call"
    /\ ppc = "ret"
    /\ documents = << >>
    /\ outcomes' = Append(outcomes, Outcome(pdf_path, "no_documents", 0))
    /\ file_i' = file_i + 1
    /\ ppc' = "idle"
    /\ mpc' = "file"
    /\ UNCHANGED <<config, deleted_count, pdf_files, total_documents, exit_code, collection, run,
                   inserted, deletes, chunkVars,
                   pdf_path, pages_data, page_i, chunk_i, documents, chunk_counter,
                   embedLog>>
    /\ UNCHANGED answerVars

MainFileError_stops ==
    /\ mpc = "call"
    /\ ppc = "raised"
    /\ outcomes' = Append(outcomes, Outcome(pdf_path, "process_raised", 0))
    /\ ppc' = "idle"
    /\ mpc' = "idle"
    /\ UNCHANGED <<config, deleted_count, pdf_files, file_i, total_documents, exit_code,
                   collection, run, inserted, deletes, chunkVars,
                   pdf_path, pages_data, page_i, chunk_i, documents, chunk_counter,
                   embedLog>>
    /\ UNCHANGED answerVars

\* process_pdf raised: except Exception, print, continue
MainFileError ==
    /\ mpc = "call"
    /\ ppc = "raised"
    /\ outcomes' = Append(outcomes, Outcome(pdf_path, "process_raised", 0))
    /\ file_i' = file_i + 1
    /\ ppc' = "idle"
    /\ mpc' = "file"
    /\ UNCHANGED <<config, deleted_count, pdf_files, total_documents, exit_code, collection, run,
                   inserted, deletes, chunkVars,
                   pdf_path, pages_data, page_i, chunk_i, documents, chunk_counter,
                   embedLog>>
    /\ UNCHANGED answerVars

\* the loop over pdf_files is over: the summary is printed and main returns
MainSummary ==
    /\ mpc = "file"
    /\ file_i > Len(pdf_files)
    /\ mpc' = "idle"
    /\ UNCHANGED <<config, deleted_count, pdf_files, file_i, total_documents, exit_code, collection,
                   run, inserted, deletes, outcomes, chunkVars, pdfVars>>
    /\ UNCHANGED answerVars

MainStep ==
    \/ MainConfigError
    \/ MainStart
    \/ MainDelete
    \/ MainScan
    \/ MainProcess
    \/ MainInsert
    \/ MainInsertRaises
    \/ MainNoDocuments
    \/ MainFileError
    \/ MainSummary

MainInit == ChunkIdle /\ PdfIdle /\ MainIdle /\ AnswerIdle

MainNext == SplitLoop \/ SplitReturn \/ PdfStep \/ MainStep

SpecMain == MainInit /\ [][MainNext]_vars

\* the interpreter keeps running the loop of split_text_into_chunks
SpecMainFair == SpecMain /\ WF_vars(SplitLoop) /\ WF_vars(SplitReturn)

\* ------------------------------------------------------------------------
\* utils/generator.py, flask_chatbot.py and rag_chatbot.py: answering
\* ------------------------------------------------------------------------
\* the sentence returned when nothing is known
FIXED ==
    <<"I", " ", "d", "o", "n", "'", "t", " ", "h", "a", "v", "e", " ", "t", "h", "a",
      "t", " ", "i", "n", "f", "o", "r", "m", "a", "t", "i", "o", "n", " ", "i", "n",
      " ", "t", "h", "e", " ", "a", "v", "a", "i", "l", "a", "b", "l", "e", " ", "d",
      "o", "c", "u", "m", "e", "n", "t", "s", ".">>

NoRelevant ==
    <<"N", "o", " ", "r", "e", "l", "e", "v", "a", "n", "t", " ", "d", "o", "c", "u",
      "m", "e", "n", "t", "s">>

ErrorPrefix ==
    <<"E", "r", "r", "o", "r", " ", "g", "e", "n", "e", "r", "a", "t", "i", "n", "g",
      " ", "a", "n", "s", "w", "e", "r", ":", " ">>

\* f"Here's what I found: " (the source writes a typographic apostrophe)
FoundPrefix ==
    <<"H", "e", "r", "e", "'", "s", " ", "w", "h", "a", "t", " ", "I", " ", "f", "o",
      "u", "n", "d", ":", " ">>

SourcesHeader ==
    <<"\n", "\n", "*", "*", "S", "o", "u", "r", "c", "e", "s", ":", "*", "*", "\n">>

Unknown ==
    <<"U", "n", "k", "n", "o", "w", "n">>

DocLeave ==
    <<"A", "b", " ", "c", "d", ".", " ", "e", "f", " ", "a", "b">>

DocOther ==
    <<" ", "x", ".", " ", "Z", "z", " ", "y">>

DocNoRelevant ==
    <<"N", "o", " ", "r", "e", "l", "e", "v", "a", "n", "t", " ", "d", "o", "c", "u",
      "m", "e", "n", "t", "s", ".", " ", "a", "b">>

SrcX ==
    <<"x", ".", "p", "d", "f">>

SrcY ==
    <<"y", ".", "p", "d", "f">>

\* the result lists vector_search may give for top_k = 3: documents with
\* and without the "content" and "source" fields
ResultLists ==
    LET leave == [content |-> DocLeave, source |-> SrcX]
        other == [content |-> DocOther, source |-> SrcX]
        third == [content |-> DocOther, source |-> SrcY]
        bare == [page |-> 1]
        nosrc == [content |-> DocLeave]
        norel == [content |-> DocNoRelevant, source |-> SrcY]
    IN  { << >>, <<leave>>, <<other>>, <<other, leave>>, <<leave, other, third>>,
          <<bare>>, <<nosrc, leave>>, <<norel>> }

TenWords ==
    <<"a", " ", "b", " ", "c", " ", "d", " ", "e", " ", "f", " ", "g", " ", "h", " ",
      "i", " ", "j">>

TenWordsPadded ==
    <<" ", "a", " ", "b", " ", "c", " ", "d", " ", "e", " ", "f", " ", "g", " ", "h",
      " ", "i", " ", "j", "\n">>

NineWords ==
    <<"a", " ", "b", " ", "c", " ", "d", " ", "e", " ", "f", " ", "g", " ", "h", " ",
      "i">>

ElevenWords ==
    <<"A", "b", " ", "i", "s", " ", "c", "d", ",", " ", "b", " ", "c", " ", "d", " ",
      "e", " ", "f", " ", "g", " ", "h", " ", "i", ".">>

\* what the chat model may reply
ChatOutputs == {TenWords, TenWordsPadded, NineWords, ElevenWords, FIXED, << >>}

ShortError ==
    <<"C", "o", "n", "n", "e", "c", "t", "i", "o", "n", " ", "e", "r", "r", "o", "r",
      ".">>

LongError ==
    <<"E", "r", "r", "o", "r", " ", "c", "o", "d", "e", ":", " ", "4", "2", "9", " ",
      "-", " ", "r", "a", "t", "e", " ", "l", "i", "m", "i", "t", " ", "r", "e", "a",
      "c", "h", "e", "d", " ", "t", "o", "d", "a", "y">>

\* the messages of the exceptions the chat-completion call may raise
ChatErrors == {ShortError, LongError}

QBlank ==
    <<" ", " ", "\n">>

QLeave ==
    <<" ", "a", "b", " ">>

QUpper ==
    <<"A", "B", " ", "z", "z">>

QNone ==
    <<"q", "q">>

QOther ==
    <<"z", "z">>

QueryStrings == {<< >>, QBlank, QLeave, QUpper, QNone, QOther}

\* the bodies of POST /answer: not JSON, JSON that is no object, an object
\* without "query", and an object whose "query" is null or a string
Bodies ==
    { [kind |-> "invalid"], [kind |-> "array"],
      [kind |-> "object", has_query |-> FALSE],
      [kind |-> "object", has_query |-> TRUE, qtype |-> "null"] }
    \cup { [kind |-> "object", has_query |-> TRUE, qtype |-> "str", qval |-> q] :
              q \in QueryStrings }

\* doc.get(key, default)
Get(doc, key, default) == IF key \in DOMAIN doc THEN doc[key] ELSE default

\* if not results:
NoResults_never(r) == FALSE

NoResults(r) == r = << >>

\* context = "\n\n".join([doc.get("content", "") for doc in results])
ContextOf(r) == Join([i \in 1..Len(r) |-> Get(r[i], "content", << >>)], <<"\n", "\n">>)

\* generate_answer: if not context or "No relevant documents" in context
SkipsChat(ctx) == ctx = << >> \/ Contains(ctx, NoRelevant)

\* if len(answer.split()) < 10:
TooShort_atMostTen(a) == Len(PyWords(a)) <= 10

TooShort_belowNine(a) == Len(PyWords(a)) < 9

TooShort(a) == Len(PyWords(a)) < 10

\* [s for s in context.split(".")
\*  if any(word in s.lower() for word in query.lower().split())]
RelevantSentences_caseSensitive(ctx, q) ==
    LET Hit(sentence) == \E word \in Range(PyWords(Lower(q))) : Contains(sentence, word)
    IN  SelectSeq(SplitOn(ctx, "."), Hit)

RelevantSentences(ctx, q) ==
    LET Hit(sentence) ==
            \E word \in Range(PyWords(Lower(q))) : Contains(Lower(sentence), word)
    IN  SelectSeq(SplitOn(ctx, "."), Hit)

\* the answer that replaces a short one
Fallback(ctx, q) ==
    LET relevant_sentences == RelevantSentences(ctx, q)
    IN  IF relevant_sentences # << >>
        THEN FoundPrefix \o Strip(relevant_sentences[1]) \o <<".">>
        ELSE FIXED

\* the answer after the short-answer check
Composed(a, ctx, q) == IF TooShort(a) THEN Fallback(ctx, q) ELSE a

\* list({doc.get("source", "Unknown") for doc in results}): a list in no
\* particular order of the distinct sources, kept as their set
HttpSources(r) == {Get(r[i], "source", Unknown) : i \in 1..Len(r)}

\* "\n\n**Sources:**\n" + "\n".join([doc.get("source", "Unknown") for doc in results])
CliSources(r) ==
    SourcesHeader \o Join([i \in 1..Len(r) |-> Get(r[i], "source", Unknown)], <<"\n">>)

\* query = data.get("query", "").strip()
QueryOf_untrimmed(body) == IF body.has_query THEN body.qval ELSE << >>

QueryOf(body) == Strip(IF body.has_query THEN body.qval ELSE << >>)

\* a request starts: nothing of the previous one is left
FreshRequest ==
    /\ results' = << >>
    /\ context' = << >>
    /\ answer' = << >>
    /\ chat' = NoChat
    /\ retrieved' = << >>

\* POST /answer: get_json(force=True) raises on a body that is not JSON,
\* data.get on a body that is no object, .strip() on a query that is no
\* string: each ends in except Exception, a 500; an empty query is a 400
HttpRequest ==
    /\ apc \in {"idle", "done"}
    /\ front' = "http"
    /\ FreshRequest
    /\ \E body \in Bodies :
          /\ request' = body
          /\ IF body.kind # "object" \/ (body.has_query /\ body.qtype # "str")
             THEN /\ query' = << >>
                  /\ response' = [kind |-> "http", status |-> 500,
                                  error |-> "Internal Server Error"]
                  /\ apc' = "done"
             ELSE /\ query' = QueryOf(body)
                  /\ IF query' = << >>
                     THEN /\ response' = [kind |-> "http", status |-> 400,
                                          error |-> "Query is required"]
                          /\ apc' = "done"
                     ELSE /\ response' = [kind |-> "pending"]
                          /\ apc' = "retrieve"
    /\ UNCHANGED <<chunkVars, pdfVars, mainVars>>

\* rag_chatbot.answer_question(query): the query is taken as it is
CliRequest ==
    /\ apc \in {"idle", "done"}
    /\ front' = "cli"
    /\ FreshRequest
    /\ \E q \in QueryStrings :
          /\ request' = [kind |-> "cli", qval |-> q]
          /\ query' = q
    /\ response' = [kind |-> "pending"]
    /\ apc' = "retrieve"
    /\ UNCHANGED <<chunkVars, pdfVars, mainVars>>

\* results = retriever.retrieve_documents(query, top_k=3), then the
\* short cut on an empty result list, else the context is built
Retrieve ==
    /\ apc = "retrieve"
    /\ retrieved' = Append(retrieved, [query |-> query, raised |-> FALSE])
    /\ \E r \in ResultLists :
          /\ results' = r
          /\ IF NoResults(r)
             THEN /\ answer' = FIXED
                  /\ response' = IF front = "http"
                                 THEN [kind |-> "http", status |-> 200,
                                       answer |-> FIXED, sources |-> {}]
                                 ELSE [kind |-> "cli", text |-> FIXED]
                  /\ apc' = "done"
                  /\ UNCHANGED context
             ELSE /\ context' = ContextOf(r)
                  /\ apc' = "generate"
                  /\ UNCHANGED <<answer, response>>
    /\ UNCHANGED <<front, request, query, chat, chunkVars, pdfVars, mainVars>>

\* retrieve_documents raises (the embedding call or the vector search):
\* a 500 from the HTTP handler, an exception out of the CLI function
RetrieveRaises ==
    /\ apc = "retrieve"
    /\ retrieved' = Append(retrieved, [query |-> query, raised |-> TRUE])
    /\ response' = IF front = "http"
                   THEN [kind |-> "http", status |-> 500, error |-> "Internal Server Error"]
                   ELSE [kind |-> "raised"]
    /\ apc' = "done"
    /\ UNCHANGED <<front, request, query, results, context, answer, chat,
                   chunkVars, pdfVars, mainVars>>

\* generate_answer returns the fixed sentence without a chat call
GenerateSkipsChat ==
    /\ apc = "generate"
    /\ SkipsChat(context)
    /\ answer' = FIXED
    /\ apc' = "compose"
    /\ UNCHANGED <<front, request, query, results, context, chat, retrieved, response,
                   chunkVars, pdfVars, mainVars>>

\* return response.choices[0].message.content.strip()
GenerateChatReturns ==
    /\ apc = "generate"
    /\ ~SkipsChat(context)
    /\ \E out \in ChatOutputs :
          /\ chat' = [called |-> TRUE, raised |-> FALSE, out |-> out]
          /\ answer' = Strip(out)
    /\ apc' = "compose"
    /\ UNCHANGED <<front, request, query, results, context, retrieved, response,
                   chunkVars, pdfVars, mainVars>>

\* except Exception as e: return f"Error generating answer: {e}"
GenerateChatRaises ==
    /\ apc = "generate"
    /\ ~SkipsChat(context)
    /\ \E msg \in ChatErrors :
          /\ chat' = [called |-> TRUE, raised |-> TRUE, out |-> msg]
          /\ answer' = ErrorPrefix \o msg
    /\ apc' = "compose"
    /\ UNCHANGED <<front, request, query, results, context, retrieved, response,
                   chunkVars, pdfVars, mainVars>>

\* the short-answer check, the sources and the reply
Compose ==
    /\ apc = "compose"
    /\ answer' = Composed(answer, context, query)
    /\ response' = IF front = "http"
                   THEN [kind |-> "http", status |-> 200,
                         answer |-> answer', sources |-> HttpSources(results)]
                   ELSE [kind |-> "cli", text |-> answer' \o CliSources(results)]
    /\ apc' = "done"
    /\ UNCHANGED <<front, request, query, results, context, chat, retrieved,
                   chunkVars, pdfVars, mainVars>>

AnswerInit == ChunkIdle /\ PdfIdle /\ MainIdle /\ AnswerIdle

AnswerNext ==
    \/ HttpRequest
    \/ CliRequest
    \/ Retrieve
    \/ RetrieveRaises
    \/ GenerateSkipsChat
    \/ GenerateChatReturns
    \/ GenerateChatRaises
    \/ Compose

SpecAnswer == AnswerInit /\ [][AnswerNext]_vars

\* ========================================================================
\* Properties
\* ========================================================================
\* integer ceiling of a / b for b > 0
CeilDiv(a, b) == -((-a) \div b)

\* the i-th smallest element of a finite set of integers
Nth(S, i) == CHOOSE x \in S : Cardinality({y \in S : y < x}) = i - 1

\* the window numbers k with k*(S-O) < len(text)
WindowNumbers == {k \in 0..Len(text) : k * (chunk_size - overlap) < Len(text)}

\* the characters of window k, text[k*(S-O) : k*(S-O)+S], written out
\* position by position (for 0 <= O < S)
WindowChars(k) ==
    LET from == k * (chunk_size - overlap)
        to == IF from + chunk_size > Len(text) THEN Len(text) ELSE from + chunk_size
    IN  [j \in 1..(to - from) |-> text[from + j]]

BlankWindow(k) == \A j \in 1..Len(WindowChars(k)) : WindowChars(k)[j] \in WS

\* C1: for 0 <= O < S the list returned by split_text_into_chunks is, in
\* increasing k, exactly the windows text[k*(S-O) : k*(S-O)+S] with
\* k*(S-O) < len(text) that are not blank after trimming: nothing else is
\* emitted and no non-blank window is dropped.
C1_ExactWindows ==
    (cpc = "ret" /\ ppc = "idle" /\ 0 <= overlap /\ overlap < chunk_size) =>
        LET kept == {k \in WindowNumbers : ~BlankWindow(k)}
        IN  /\ Len(chunks) = Cardinality(kept)
            /\ \A i \in 1..Len(chunks) : chunks[i] = WindowChars(Nth(kept, i))

C1_Witness ==
    /\ cpc = "ret"
    /\ ppc = "idle"
    /\ 0 < overlap
    /\ overlap < chunk_size
    /\ Len(chunks) >= 2
    /\ \E k \in WindowNumbers : BlankWindow(k)

\* every window the loop visits is non-blank
NoBlankWindow ==
    \A k \in WindowNumbers :
        Strip(Window(text, k * (chunk_size - overlap), chunk_size)) # << >>

\* C3 as stated: with O < S and no whitespace-only window the number of
\* chunks returned is ceil((L-O)/(S-O)); stated here for the plain case of
\* 0 <= O < S and a text of at least one full window.
C3_CountAsStated ==
    (/\ cpc = "ret" /\ ppc = "idle"
     /\ 0 <= overlap /\ overlap < chunk_size /\ Len(text) >= chunk_size
     /\ NoBlankWindow) =>
        Len(chunks) = CeilDiv(Len(text) - overlap, chunk_size - overlap)

\* C3 amended: with O < S and no whitespace-only window the number of
\* chunks returned is ceil(L/(S-O)), one per start offset below L.
C3_Count ==
    (cpc = "ret" /\ ppc = "idle" /\ overlap < chunk_size /\ NoBlankWindow) =>
        Len(chunks) = CeilDiv(Len(text), chunk_size - overlap)

C3_Witness ==
    /\ cpc = "ret"
    /\ ppc = "idle"
    /\ 0 < overlap
    /\ overlap < chunk_size
    /\ NoBlankWindow
    /\ Len(chunks) = 3
    /\ CeilDiv(Len(text) - overlap, chunk_size - overlap) # 3

\* the non-blank windows of t from offset s on, for ov < size
RECURSIVE WindowsFrom(_, _, _, _)
WindowsFrom(t, s, size, ov) ==
    IF s >= Len(t) THEN << >>
    ELSE LET to == IF s + size > Len(t) THEN Len(t) ELSE s + size
             w == SubSeq(t, s + 1, to)
         IN  (IF \E j \in 1..Len(w) : w[j] \notin WS THEN <<w>> ELSE << >>)
             \o WindowsFrom(t, s + (size - ov), size, ov)

\* every chunk of every page, in page-then-window order
RECURSIVE AttemptsFrom(_)
AttemptsFrom(n) ==
    IF n > Len(pages_data) THEN << >>
    ELSE LET ws == WindowsFrom(pages_data[n].text, 0, chunk_size, overlap)
         IN  [i \in 1..Len(ws) |-> [page |-> pages_data[n].page, content |-> ws[i]]]
             \o AttemptsFrom(n + 1)

PageAndContent(r) == [page |-> r.page, content |-> r.content]

Succeeded(e) == e.ok

\* C4: within one call of process_pdf the i-th document has chunk_index
\* i - 1: the indices start at 0, are unique and increasing, do not restart
\* at a page boundary and stay contiguous when an embedding call failed; the
\* 2500-character page with size 1000 and overlap 200 gives 4 documents,
\* chunk_index 0..3, of one source and one page.
C4_ChunkIndexContiguous ==
    /\ \A i \in 1..Len(documents) : documents[i].chunk_index = i - 1
    /\ (/\ ppc = "ret"
        /\ Basename(pdf_path) = "big.pdf"
        /\ \A i \in 1..Len(embedLog) : embedLog[i].ok) =>
           /\ Len(documents) = 4
           /\ \A i \in 1..4 : /\ documents[i].source = "big.pdf"
                              /\ documents[i].page = 1
                              /\ documents[i].chunk_index = i - 1

C4_Witness ==
    /\ ppc = "ret"
    /\ mpc = "idle"
    /\ Len(documents) >= 3
    /\ \E i \in 1..Len(embedLog) : ~embedLog[i].ok
    /\ \E i, j \in 1..Len(documents) : documents[i].page # documents[j].page

\* C5: a failed embedding call leaves out its own chunk only.  process_pdf
\* raises only from the extraction, before any embedding call; when it
\* returns, an embedding call was made for every chunk of every page, once,
\* in page-then-window order, and the documents are exactly the chunks whose
\* call succeeded, in that order.
C5_FailureSkipsOneChunk ==
    /\ (ppc = "raised") => (embedLog = << >>)
    /\ (ppc = "ret" /\ overlap < chunk_size) =>
          LET all == AttemptsFrom(1)
              good == SelectSeq(embedLog, Succeeded)
          IN  /\ Len(embedLog) = Len(all)
              /\ \A i \in 1..Len(all) : PageAndContent(embedLog[i]) = all[i]
              /\ Len(documents) = Len(good)
              /\ \A i \in 1..Len(good) :
                    PageAndContent(documents[i]) = PageAndContent(good[i])

C5_Witness ==
    /\ ppc = "ret"
    /\ mpc = "idle"
    /\ Len(embedLog) >= 4
    /\ ~embedLog[1].ok
    /\ embedLog[2].ok
    /\ embedLog[2].page = embedLog[1].page
    /\ \E i \in 3..Len(embedLog) : embedLog[i].ok /\ embedLog[i].page # embedLog[1].page
    /\ Len(documents) >= 2

\* C2: split_text_into_chunks returns whenever overlap < chunk_size, and on
\* a non-empty text it never leaves its loop when overlap >= chunk_size;
\* the batch run reaches it with whatever CHUNK_SIZE and CHUNK_OVERLAP the
\* environment gives, validate_config and main reject neither.
C2_TerminatesIffStepPositive ==
    /\ []((cpc = "loop" /\ overlap < chunk_size) => <>(cpc = "ret"))
    /\ [][(cpc = "loop" /\ overlap >= chunk_size /\ Len(text) > 0)
             => (cpc' = "loop" /\ start' <= start)]_vars

C2_Witness ==
    /\ mpc = "call"
    /\ ppc = "split"
    /\ cpc = "loop"
    /\ overlap >= chunk_size
    /\ overlap = config.CHUNK_OVERLAP
    /\ chunk_size = config.CHUNK_SIZE
    /\ Len(text) > 0
    /\ Len(chunks) >= 2

\* C10: in every run that passed validation the delete-all is issued once
\* and before any insert, so the collection holds exactly what the current
\* run inserted: no record of an earlier run, no record twice, and nothing
\* at all after a run that found no data directory or no PDF file.
C10_OnlyLatestRun ==
    /\ (mpc = "delete") => (deletes = 0 /\ inserted = << >>)
    /\ (run > 0 /\ mpc # "delete") => (deletes = 1 /\ collection = inserted)
    /\ (run > 0 /\ mpc = "idle" /\ pdf_files = << >>) => (collection = << >>)
    /\ \A i, j \in 1..Len(collection) :
          (/\ collection[i].source = collection[j].source
           /\ collection[i].chunk_index = collection[j].chunk_index) => (i = j)

C10_Witness ==
    /\ run = 2
    /\ mpc = "idle"
    /\ deleted_count = 3
    /\ Len(collection) = 3
    /\ \A i \in 1..3 : collection[i].source = "a.pdf"

\* the number of whitespace-separated words of s: the places where a word
\* begins
WordCount(s) ==
    Cardinality({i \in 1..Len(s) : s[i] \notin WS /\ (i = 1 \/ s[i - 1] \in WS)})

Blank(s) == \A i \in 1..Len(s) : s[i] \in WS

\* the retriever was called once and returned the empty list
EmptyRetrieval ==
    /\ apc = "done"
    /\ Len(retrieved) = 1
    /\ ~retrieved[1].raised
    /\ results = << >>

\* C6: when the retriever returns an empty list the HTTP handler replies
\* 200 with the fixed sentence and no sources, the CLI function returns the
\* fixed sentence alone, and the chat model is not called.
C6_EmptyResultsShortCircuit ==
    EmptyRetrieval =>
        /\ ~chat.called
        /\ (front = "http") =>
              response = [kind |-> "http", status |-> 200, answer |-> FIXED, sources |-> {}]
        /\ (front = "cli") => response = [kind |-> "cli", text |-> FIXED]

C6_Witness == EmptyRetrieval /\ front = "cli" /\ response.text = FIXED

\* the chat model was called and replied
ChatReplied == apc = "done" /\ chat.called /\ ~chat.raised

\* the answer the caller is given
Delivered == IF front = "http" THEN response.answer ELSE answer

\* the answer built from the first piece of the context, split on ".",
\* that holds a word of the query whatever the case; the fixed sentence
\* when no piece does
FromFirstMatch ==
    LET pieces == SplitOn(context, ".")
        words == Range(PyWords(Lower(query)))
        hits == {i \in 1..Len(pieces) : \E w \in words : Contains(Lower(pieces[i]), w)}
    IN  IF hits = {} THEN FIXED
        ELSE FoundPrefix \o Strip(pieces[MinOf(hits)]) \o <<".">>

\* C7 as stated: a reply of fewer than 10 words is replaced by the answer
\* from the first matching piece or the fixed sentence; a reply of 10 or
\* more words is returned unchanged.
C7_AsStated ==
    ChatReplied =>
        IF WordCount(chat.out) < 10 THEN Delivered = FromFirstMatch
        ELSE Delivered = chat.out

\* C7 amended: a reply of fewer than 10 words is replaced by the answer
\* from the first matching piece or the fixed sentence; a reply of 10 or
\* more words is returned with its leading and trailing whitespace removed,
\* and otherwise as it is.
C7_ShortAnswerFallback ==
    ChatReplied =>
        IF WordCount(chat.out) < 10 THEN Delivered = FromFirstMatch
        ELSE Delivered = Strip(chat.out)

C7_Witness ==
    /\ ChatReplied
    /\ chat.out = NineWords
    /\ query = Strip(QLeave)
    /\ Len(results) = 2
    /\ Delivered # FIXED
    /\ Len(RelevantSentences(context, query)) = 2
    /\ RelevantSentences_caseSensitive(context, query) # RelevantSentences(context, query)

\* C8: when the chat-completion call raises, the answer given to the
\* caller is "Error generating answer: " followed by the message.
C8_ErrorSurfaces ==
    (apc = "done" /\ chat.called /\ chat.raised) => (Delivered = ErrorPrefix \o chat.out)

\* the request carries no query, or one that is empty or blank
NoQuery == request.kind = "object" /\ (~request.has_query \/ (request.qtype = "str" /\ Blank(request.qval)))

\* C9: a POST /answer whose body has no query, or an empty or blank one,
\* is answered 400 "Query is required" without a call of the retriever or
\* of the chat model; the HTTP front end hands the retriever only queries
\* that are non-empty and trimmed.
C9_BlankQueryRejected ==
    (front = "http") =>
        /\ NoQuery =>
              /\ apc = "done"
              /\ response = [kind |-> "http", status |-> 400, error |-> "Query is required"]
              /\ retrieved = << >>
              /\ ~chat.called
        /\ \A i \in 1..Len(retrieved) :
              LET q == retrieved[i].query
              IN  q # << >> /\ q[1] \notin WS /\ q[Len(q)] \notin WS

C9_Witness ==
    /\ front = "http"
    /\ request.kind = "object"
    /\ request.has_query
    /\ request.qtype = "str"
    /\ request.qval = QBlank
    /\ response.kind = "http"
    /\ response.status = 400

\* the source fields of the results, one per document
ResultSources == {Get(results[i], "source", Unknown) : i \in 1..Len(results)}

\* the request went through retrieval and composition with results to show
Answered == apc = "done" /\ results # << >>

\* the lines of the "**Sources:**" block that ends the text of a CLI answer
SourceLines ==
    LET from == Len(answer) + Len(SourcesHeader)
    IN  SplitOn(SubSeq(response.text, from + 1, Len(response.text)), "\n")

\* C11: for a non-empty result list the "sources" field of the HTTP reply
\* and the lines of the "**Sources:**" block of the CLI answer are the same
\* deduplicated set of the results' source fields, each distinct source
\* appearing exactly once in both.
C11_SameDedupedSources ==
    Answered =>
        /\ (front = "http") => response.sources = ResultSources
        /\ (front = "cli") =>
              /\ SubSeq(response.text, Len(answer) + 1, Len(answer) + Len(SourcesHeader))
                    = SourcesHeader
              /\ Range(SourceLines) = ResultSources
              /\ Len(SourceLines) = Cardinality(ResultSources)

\* the file failed: process_pdf or insert_documents raised
Failed(o) == o.how \in {"process_raised", "insert_raised"}

\* the sum of the counts of the files that did not fail
RECURSIVE SumInserted(_)
SumInserted(log) ==
    IF log = << >> THEN 0
    ELSE (IF Failed(log[1]) THEN 0 ELSE log[1].count) + SumInserted(Tail(log))

\* the records of the collection that come from one file
RecordsOf(name) == {j \in 1..Len(collection) : collection[j].source = name}

\* the loop of main is at its head, or the run is over after the loop
AtLoopHead == mpc = "file" \/ (mpc = "idle" /\ run > 0 /\ pdf_files # << >>)

\* C12: in the batch run a file whose processing or insert raised does not
\* stop the loop: the loop is through with exactly the files before the
\* current one, in the order of the list, the summary comes only after the
\* last file, a failed file has no record in the collection and adds nothing
\* to the total, the total is the sum of the inserted counts of the files
\* that did not fail, and the step that handles a failure moves on to the
\* next file of the same list.
C12_FailedFileSkipped ==
    /\ [](AtLoopHead =>
             /\ Len(outcomes) = file_i - 1
             /\ \A i \in 1..Len(outcomes) : outcomes[i].file = Basename(pdf_files[i]))
    /\ []((mpc = "idle" /\ run > 0 /\ pdf_files # << >>) =>
             Len(outcomes) = Len(pdf_files))
    /\ []((mpc \in {"file", "call", "idle"}) =>
             /\ total_documents = SumInserted(outcomes)
             /\ \A i \in 1..Len(outcomes) :
                   IF Failed(outcomes[i])
                   THEN RecordsOf(outcomes[i].file) = {}
                   ELSE Cardinality(RecordsOf(outcomes[i].file)) = outcomes[i].count)
    /\ [][(mpc = "call" /\ Len(outcomes') = Len(outcomes) + 1
              /\ Failed(outcomes'[Len(outcomes')])) =>
                 /\ mpc' = "file"
                 /\ file_i' = file_i + 1
                 /\ pdf_files' = pdf_files
                 /\ total_documents' = total_documents
                 /\ collection' = collection]_vars

C12_Witness ==
    /\ mpc = "idle"
    /\ Len(outcomes) = 2
    /\ outcomes[1].how = "process_raised"
    /\ outcomes[2].how = "inserted"
    /\ total_documents = 2
    /\ Len(collection) = 2

\* C13: a request whose retrieved result list is not empty has exactly one
\* chat-completion call made for it, whatever the retrieved chunks hold.
C13_OneChatCall == Answered => chat.called

\* the chat model was called and replied with the fixed sentence itself
FixedReply == ChatReplied /\ chat.out = FIXED

\* some piece of the context, split on ".", holds a word of the query,
\* whatever the case
SomePieceMatches ==
    \E i \in 1..Len(SplitOn(context, ".")) :
        \E w \in Range(PyWords(Lower(query))) :
            Contains(Lower(SplitOn(context, ".")[i]), w)

\* C14: the fixed sentence has 9 whitespace-separated words, so a chat
\* reply that is exactly that sentence sets off the fewer-than-10-words
\* fallback: the caller gets the fixed sentence only if no piece of the
\* context holds a query word, and otherwise the "Here's what I found: ..."
\* answer built from the first piece that does.
C14_FixedReplyFallsBack ==
    /\ Len(PyWords(FIXED)) = 9
    /\ FixedReply =>
          /\ (Delivered = FIXED) <=> ~SomePieceMatches
          /\ SomePieceMatches =>
                /\ SubSeq(Delivered, 1, Len(FoundPrefix)) = FoundPrefix
                /\ Delivered = FromFirstMatch

C14_Witness ==
    /\ FixedReply
    /\ front = "cli"
    /\ query = QUpper
    /\ Len(results) = 3
    /\ Delivered # FIXED
    /\ SubSeq(response.text, 1, Len(FoundPrefix)) = FoundPrefix

====
